---- MODULE Spec2Model ----
(***************************************************************************)
(* pgm::args -- definition registry and command-line parser.               *)
(*                                                                         *)
(* Strings are modelled as sequences of one-character strings, so that     *)
(* substr(), find() and operator[] of the source act on them as they do on *)
(* std::string.  The registry (options_, params_) and the locals of        *)
(* args::parse are the state; one action per call (add, parse entry) and   *)
(* per loop iteration of args::parse.                                      *)
(***************************************************************************)
EXTENDS Integers, Sequences, FiniteSets, TLC

VARIABLES
    options,     \* args::options_  (vector<option>)
    params,      \* args::params_   (vector<param>)
    pc,          \* "idle" outside parse; "scan" / "params" inside it
    argv,        \* argv[1..] of the running (or last) parse call
    args,        \* parse local: std::deque<std::string> args
    had_token,   \* parse local: bool had_token
    saved,       \* parse local: std::deque<std::string> saved
    it,          \* parse local: position of the params_ iterator (1-based)
    req_n,       \* parse local: # of non-opt params to fill
    err,         \* exception thrown by the last call (NoErr: it returned)
    positional,  \* history: every token pushed onto saved by this parse
    entry,       \* history: <<options_, params_>> at entry of this parse
    nparse,      \* history: number of parse calls begun
    last,        \* history: the call begun last ("none", "add", "parse", "lookup")
    ret          \* what the last call returned (operator[]: an argval const&)

vars == <<options, params, pc, argv, args, had_token, saved, it, req_n, err,
          positional, entry, nparse, last, ret>>

----------------------------------------------------------------------------
(* Bounds of the model *)

MaxDefs == 3
MaxArgs == 2
MaxGroup == 3
MaxParses == 2
MaxParams == 5
MaxPos == 7
MaxMix == 3

----------------------------------------------------------------------------
(* Characters and strings *)

Alnum == {"a", "b", "c", "e", "o", "p", "r", "t", "u", "x", "y", "z", "V",
          "0", "1", "2", "3", "4", "5", "6", "7", "8", "9"}

Graph == Alnum \cup {"-", "="}

Str0 == <<>>

Dash == <<"-">>

DashDash == <<"-", "-">>

\* std::find(c, from) with a 0-based position; 0 stands for npos here
RECURSIVE FindFrom(_, _, _)
FindFrom(s, c, i) ==
    IF i > Len(s) THEN 0
    ELSE IF s[i] = c THEN i
    ELSE FindFrom(s, c, i + 1)

is_short_option(s) ==
    Len(s) = 2 /\ s[1] = "-" /\ s[2] \in Alnum

is_long_option(s) ==
    /\ Len(s) > 2
    /\ s[1] = "-"
    /\ s[2] = "-"
    /\ s[3] # "-"
    /\ \A i \in 3..Len(s) : s[i] = "-" \/ s[i] \in Alnum

is_valname(s) ==
    Len(s) > 0 /\ s[1] # "-" /\ \A i \in 1..Len(s) : s[i] \in Graph

is_param_name(s) ==
    Len(s) > 0 /\ s[1] # "-" /\ \A i \in 1..Len(s) : s[i] \in Graph

is_not_option(s) ==
    s = Str0 \/ s = Dash \/ s[1] # "-"

----------------------------------------------------------------------------
(* Exceptions *)

Err(kind, what, name) == [kind |-> kind, what |-> what, name |-> name]

NoErr == Err("none", "", Str0)

invalid_definition(what, name) == Err("invalid_definition", what, name)

invalid_argument(what, name) == Err("invalid_argument", what, name)

\* variant: thrown as the definition-time kind
missing_argument_misfiled(what, name) == Err("invalid_definition", what, name)

missing_argument(what, name) == Err("missing_argument", what, name)

----------------------------------------------------------------------------
(* Definitions: option, param, arg *)

make_option(short_, long_, valname, spc) ==
    [short |-> short_, long |-> long_, valname |-> valname,
     req |-> "req" \in spc, mul |-> "mul" \in spc, optval |-> "optval" \in spc,
     values |-> <<>>]

\* variant: pgm::req makes a param mandatory
make_param_req(name, spc) ==
    [name |-> name, opt |-> "opt" \in spc /\ "req" \notin spc, mul |-> "mul" \in spc,
     values |-> <<>>]

make_param(name, spc) ==
    [name |-> name, opt |-> "opt" \in spc, mul |-> "mul" \in spc,
     values |-> <<>>]

NoOption == make_option(Str0, Str0, Str0, {})

NoParam == make_param(Str0, {})

ArgOption(o) == [kind |-> "option", o |-> o, p |-> NoParam, err |-> NoErr]

ArgParam(p) == [kind |-> "param", o |-> NoOption, p |-> p, err |-> NoErr]

ArgThrow(e) == [kind |-> "throw", o |-> NoOption, p |-> NoParam, err |-> e]

arg1(name1, spc) ==
    IF is_short_option(name1) THEN ArgOption(make_option(name1, Str0, Str0, spc))
    ELSE IF is_long_option(name1) THEN ArgOption(make_option(Str0, name1, Str0, spc))
    ELSE IF is_param_name(name1) THEN ArgParam(make_param(name1, spc))
    ELSE ArgThrow(invalid_definition("bad option or param name", name1))

\* variant: a long name may come first and the short name second
arg2_eitherorder(name1, name2, spc) ==
    IF is_short_option(name1)
    THEN IF is_long_option(name2) THEN ArgOption(make_option(name1, name2, Str0, spc))
         ELSE IF is_valname(name2) THEN ArgOption(make_option(name1, Str0, name2, spc))
         ELSE ArgThrow(invalid_definition("bad long option or option value name", name2))
    ELSE IF is_long_option(name1)
    THEN IF is_short_option(name2) THEN ArgOption(make_option(name2, name1, Str0, spc))
         ELSE IF is_valname(name2) THEN ArgOption(make_option(Str0, name1, name2, spc))
         ELSE ArgThrow(invalid_definition("bad option value name", name2))
    ELSE ArgThrow(invalid_definition("bad short or long option name", name1))

arg2(name1, name2, spc) ==
    IF is_short_option(name1)
    THEN IF is_long_option(name2) THEN ArgOption(make_option(name1, name2, Str0, spc))
         ELSE IF is_valname(name2) THEN ArgOption(make_option(name1, Str0, name2, spc))
         ELSE ArgThrow(invalid_definition("bad long option or option value name", name2))
    ELSE IF is_long_option(name1)
    THEN IF is_valname(name2) THEN ArgOption(make_option(Str0, name1, name2, spc))
         ELSE ArgThrow(invalid_definition("bad option value name", name2))
    ELSE ArgThrow(invalid_definition("bad short or long option name", name1))

arg3(name1, name2, name3, spc) ==
    IF ~is_short_option(name1)
    THEN ArgThrow(invalid_definition("bad short option name", name1))
    ELSE IF ~is_long_option(name2)
    THEN ArgThrow(invalid_definition("bad long option name", name2))
    ELSE IF ~is_valname(name3)
    THEN ArgThrow(invalid_definition("bad option value name", name3))
    ELSE ArgOption(make_option(name1, name2, name3, spc))

\* a call of one of the arg constructors: d.names holds its 1..3 name strings
MakeArg(d) ==
    IF Len(d.names) = 1 THEN arg1(d.names[1], d.spc)
    ELSE IF Len(d.names) = 2 THEN arg2(d.names[1], d.names[2], d.spc)
    ELSE arg3(d.names[1], d.names[2], d.names[3], d.spc)

\* what a call hands back: add and parse return void, operator[] the values_
\* of the definition called `name`
Ret(found, name, values) == [found |-> found, name |-> name, values |-> values]

NoRet == Ret(FALSE, Str0, <<>>)

----------------------------------------------------------------------------
(* The machine state as one record, so that whole calls can be composed *)

St == [options |-> options, params |-> params, pc |-> pc, argv |-> argv,
       args |-> args, had_token |-> had_token, saved |-> saved, it |-> it,
       req_n |-> req_n, err |-> err, positional |-> positional,
       entry |-> entry, nparse |-> nparse, last |-> last, ret |-> ret]

Install(s) ==
    /\ options' = s.options
    /\ params' = s.params
    /\ pc' = s.pc
    /\ argv' = s.argv
    /\ args' = s.args
    /\ had_token' = s.had_token
    /\ saved' = s.saved
    /\ it' = s.it
    /\ req_n' = s.req_n
    /\ err' = s.err
    /\ positional' = s.positional
    /\ entry' = s.entry
    /\ nparse' = s.nparse
    /\ last' = s.last
    /\ ret' = s.ret

\* a call ends (return or throw): the locals of parse are gone
Leave(s, e) ==
    [s EXCEPT !.pc = "idle", !.err = e, !.args = <<>>, !.had_token = FALSE,
              !.saved = <<>>, !.it = 0, !.req_n = 0]

----------------------------------------------------------------------------
(* args::add, add_option, add_param *)

HasShort(opts, name) == \E i \in 1..Len(opts) : opts[i].short = name

\* variant: only the option declared first is looked at
HasLong_first(opts, name) == Len(opts) > 0 /\ opts[1].long = name

HasLong(opts, name) == \E i \in 1..Len(opts) : opts[i].long = name

HasParam(pars, name) == \E i \in 1..Len(pars) : pars[i].name = name

\* variant: only the param declared last is looked at
HasMul_last(pars) == Len(pars) > 0 /\ pars[Len(pars)].mul

HasMul(pars) == \E i \in 1..Len(pars) : pars[i].mul

\* variant: the option whose long name is taken is stored before the throw
add_option_partial(s, new_) ==
    IF Len(new_.short) > 0 /\ HasShort(s.options, new_.short)
    THEN Leave(s, invalid_definition("duplicate option", new_.short))
    ELSE IF Len(new_.long) > 0 /\ HasLong(s.options, new_.long)
    THEN Leave([s EXCEPT !.options = Append(@, new_)],
               invalid_definition("duplicate option", new_.long))
    ELSE Leave([s EXCEPT !.options = Append(@, new_)], NoErr)

add_option(s, new_) ==
    IF Len(new_.short) > 0 /\ HasShort(s.options, new_.short)
    THEN Leave(s, invalid_definition("duplicate option", new_.short))
    ELSE IF Len(new_.long) > 0 /\ HasLong(s.options, new_.long)
    THEN Leave(s, invalid_definition("duplicate option", new_.long))
    ELSE Leave([s EXCEPT !.options = Append(@, new_)], NoErr)

\* variant: a mandatory param is refused after an optional one
add_param_opt_last(s, new_) ==
    IF HasParam(s.params, new_.name)
    THEN Leave(s, invalid_definition("duplicate param", new_.name))
    ELSE IF new_.mul /\ HasMul(s.params)
    THEN Leave(s, invalid_argument("more than one multi-value param", new_.name))
    ELSE IF Len(s.params) > 0 /\ s.params[Len(s.params)].opt /\ ~new_.opt
    THEN Leave(s, invalid_definition("non-optional after optional param", new_.name))
    ELSE Leave([s EXCEPT !.params = Append(@, new_)], NoErr)

\* variant: every param is refused after a repeatable one
add_param_mul_last(s, new_) ==
    IF HasParam(s.params, new_.name)
    THEN Leave(s, invalid_definition("duplicate param", new_.name))
    ELSE IF Len(s.params) > 0 /\ s.params[Len(s.params)].mul
    THEN Leave(s, invalid_definition("after multi-value param", new_.name))
    ELSE Leave([s EXCEPT !.params = Append(@, new_)], NoErr)

add_param(s, new_) ==
    IF HasParam(s.params, new_.name)
    THEN Leave(s, invalid_definition("duplicate param", new_.name))
    ELSE IF new_.mul /\ HasMul(s.params)
    THEN Leave(s, invalid_argument("more than one multi-value param", new_.name))
    ELSE Leave([s EXCEPT !.params = Append(@, new_)], NoErr)

\* args::add(arg{...}): the constructor runs first and may throw
add(s0, d) ==
    LET new_ == MakeArg(d)
        s == [s0 EXCEPT !.last = "add", !.ret = NoRet]
    IN
    IF new_.kind = "option" THEN add_option(s, new_.o)
    ELSE IF new_.kind = "param" THEN add_param(s, new_.p)
    ELSE Leave(s, new_.err)

----------------------------------------------------------------------------
(* argval *)

count(data_) == Len(data_)

empty(data_) == data_ = <<>>

value_or(data_, def) == IF empty(data_) THEN def ELSE data_[1]

----------------------------------------------------------------------------
(* args::operator[] *)

\* the first option whose short or long name is `name`; 0: none
LookupOption(opts, name) ==
    IF \E i \in 1..Len(opts) : opts[i].short = name \/ opts[i].long = name
    THEN CHOOSE i \in 1..Len(opts) :
            /\ opts[i].short = name \/ opts[i].long = name
            /\ \A j \in 1..(i - 1) : ~(opts[j].short = name \/ opts[j].long = name)
    ELSE 0

\* the first param called `name`; 0: none
LookupParam(pars, name) ==
    IF \E i \in 1..Len(pars) : pars[i].name = name
    THEN CHOOSE i \in 1..Len(pars) :
            /\ pars[i].name = name
            /\ \A j \in 1..(i - 1) : pars[j].name # name
    ELSE 0

\* variant: options are found by their short name only
lookup_shortonly(s0, name) ==
    LET s == [s0 EXCEPT !.last = "lookup"]
        i == IF \E k \in 1..Len(s.options) : s.options[k].short = name
             THEN CHOOSE k \in 1..Len(s.options) : s.options[k].short = name
             ELSE 0
        j == LookupParam(s.params, name)
    IN
    IF name # Str0 /\ i # 0
    THEN [s EXCEPT !.err = NoErr, !.ret = Ret(TRUE, name, s.options[i].values)]
    ELSE IF name # Str0 /\ j # 0
    THEN [s EXCEPT !.err = NoErr, !.ret = Ret(TRUE, name, s.params[j].values)]
    ELSE [s EXCEPT !.err = invalid_argument("unrecognized option or param", name),
                   !.ret = Ret(FALSE, name, <<>>)]

lookup(s0, name) ==
    LET s == [s0 EXCEPT !.last = "lookup"]
        i == LookupOption(s.options, name)
        j == LookupParam(s.params, name)
    IN
    IF name # Str0 /\ i # 0
    THEN [s EXCEPT !.err = NoErr, !.ret = Ret(TRUE, name, s.options[i].values)]
    ELSE IF name # Str0 /\ j # 0
    THEN [s EXCEPT !.err = NoErr, !.ret = Ret(TRUE, name, s.params[j].values)]
    ELSE [s EXCEPT !.err = invalid_argument("unrecognized option or param", name),
                   !.ret = Ret(FALSE, name, <<>>)]

----------------------------------------------------------------------------
(* args::parse: entry *)

\* variant: the values of an earlier parse are cleared at entry
parse_begin_reset(s, a) ==
    [s EXCEPT !.pc = "scan", !.argv = a, !.args = a, !.had_token = FALSE,
              !.saved = <<>>, !.it = 0, !.req_n = 0, !.err = NoErr,
              !.positional = <<>>, !.entry = <<s.options, s.params>>,
              !.nparse = @ + 1, !.last = "parse", !.ret = NoRet,
              !.options = [i \in 1..Len(s.options) |->
                              [s.options[i] EXCEPT !.values = <<>>]],
              !.params = [i \in 1..Len(s.params) |->
                              [s.params[i] EXCEPT !.values = <<>>]]]

parse_begin(s, a) ==
    [s EXCEPT !.pc = "scan", !.argv = a, !.args = a, !.had_token = FALSE,
              !.saved = <<>>, !.it = 0, !.req_n = 0, !.err = NoErr,
              !.positional = <<>>, !.entry = <<s.options, s.params>>,
              !.nparse = @ + 1, !.last = "parse", !.ret = NoRet]

----------------------------------------------------------------------------
(* args::parse: the scan loop, one token per iteration *)

\* split an option token into name and (optional) value
SplitLong(arg) ==
    LET p == FindFrom(arg, "=", 3) IN
    IF p # 0
    THEN [name |-> SubSeq(arg, 1, p - 1), has |-> TRUE,
          value |-> SubSeq(arg, p + 1, Len(arg))]
    ELSE [name |-> arg, has |-> FALSE, value |-> Str0]

SplitShort(arg) ==
    IF Len(arg) > 2
    THEN [name |-> SubSeq(arg, 1, 2), has |-> TRUE,
          value |-> SubSeq(arg, 3, Len(arg))]
    ELSE [name |-> SubSeq(arg, 1, 2), has |-> FALSE, value |-> Str0]

SplitNameValue(arg) ==
    IF arg[2] = "-" THEN SplitLong(arg) ELSE SplitShort(arg)

\* std::find_if over options_ with pred; 0 stands for options_.end()
FindOption(opts, name) ==
    IF \E i \in 1..Len(opts) : opts[i].short = name \/ opts[i].long = name
    THEN CHOOSE i \in 1..Len(opts) :
            /\ opts[i].short = name \/ opts[i].long = name
            /\ \A j \in 1..(i - 1) : ~(opts[j].short = name \/ opts[j].long = name)
    ELSE 0

Resolved(value, queue) == [ok |-> TRUE, value |-> value, args |-> queue, err |-> NoErr]

Unresolved(e) == [ok |-> FALSE, value |-> Str0, args |-> <<>>, err |-> e]

\* variant: the rest of a short-option group is dropped, not re-queued
NoValue_dropped(sp, rest) ==
    IF sp.has
    THEN IF Len(sp.name) = 2
         THEN Resolved(Str0, rest)
         ELSE Unresolved(invalid_argument("doesn't take values", sp.name))
    ELSE Resolved(Str0, rest)

\* variant: the whole token of a short-option group is re-queued
NoValue_again(sp, rest) ==
    IF sp.has
    THEN IF Len(sp.name) = 2
         THEN Resolved(Str0, <<sp.name \o sp.value>> \o rest)
         ELSE Unresolved(invalid_argument("doesn't take values", sp.name))
    ELSE Resolved(Str0, rest)

\* variant: an empty inline value counts as no value
NoValue_emptyok(sp, rest) ==
    IF sp.has /\ sp.value # Str0
    THEN IF Len(sp.name) = 2
         THEN Resolved(Str0, <<Dash \o sp.value>> \o rest)
         ELSE Unresolved(invalid_argument("doesn't take values", sp.name))
    ELSE Resolved(Str0, rest)

\* variant: the rest of a short-option group is also kept as the value
NoValue_keeps(sp, rest) ==
    IF sp.has
    THEN IF Len(sp.name) = 2
         THEN Resolved(sp.value, <<Dash \o sp.value>> \o rest)
         ELSE Unresolved(invalid_argument("doesn't take values", sp.name))
    ELSE Resolved(Str0, rest)

\* the option doesn't take values
NoValue(sp, rest) ==
    IF sp.has
    THEN IF Len(sp.name) = 2
         THEN Resolved(Str0, <<Dash \o sp.value>> \o rest)
         ELSE Unresolved(invalid_argument("doesn't take values", sp.name))
    ELSE Resolved(Str0, rest)

\* variant: the next token is taken whatever it looks like
OptionalValue_greedy(sp, rest) ==
    IF ~sp.has
    THEN IF Len(rest) > 0
         THEN Resolved(Head(rest), Tail(rest))
         ELSE Resolved(Str0, rest)
    ELSE Resolved(sp.value, rest)

\* the option value is optional
OptionalValue(sp, rest) ==
    IF ~sp.has
    THEN IF Len(rest) > 0 /\ is_not_option(rest[1])
         THEN Resolved(Head(rest), Tail(rest))
         ELSE Resolved(Str0, rest)
    ELSE Resolved(sp.value, rest)

\* variant: the next token is refused as a value when it looks like an option
RequiredValue_shy(sp, rest) ==
    IF ~sp.has
    THEN IF Len(rest) > 0 /\ is_not_option(rest[1])
         THEN Resolved(Head(rest), Tail(rest))
         ELSE Unresolved(missing_argument("requires a value", sp.name))
    ELSE Resolved(sp.value, rest)

\* the option requires a value
RequiredValue(sp, rest) ==
    IF ~sp.has
    THEN IF Len(rest) > 0 /\ rest[1] # DashDash
         THEN Resolved(Head(rest), Tail(rest))
         ELSE Unresolved(missing_argument("requires a value", sp.name))
    ELSE Resolved(sp.value, rest)

\* variant: the optional-value flag is looked at before the value name
ResolveValue_optfirst(o, sp, rest) ==
    IF o.optval THEN OptionalValue(sp, rest)
    ELSE IF o.valname = Str0 THEN NoValue(sp, rest)
    ELSE RequiredValue(sp, rest)

ResolveValue(o, sp, rest) ==
    IF o.valname = Str0 THEN NoValue(sp, rest)
    ELSE IF o.optval THEN OptionalValue(sp, rest)
    ELSE RequiredValue(sp, rest)

\* variant: the duplicate is noticed one occurrence late
IsDuplicate_late(o) == ~o.mul /\ Len(o.values) > 1

IsDuplicate(o) == ~o.mul /\ o.values # <<>>

\* variant: the value is put in front of the values recorded so far
OptionToken_front(s, arg, rest) ==
    LET sp == SplitNameValue(arg)
        i == FindOption(s.options, sp.name)
    IN
    IF i = 0 THEN Leave(s, invalid_argument("unrecognized option", sp.name))
    ELSE LET r == ResolveValue(s.options[i], sp, rest) IN
         IF ~r.ok THEN Leave(s, r.err)
         ELSE IF IsDuplicate(s.options[i])
         THEN Leave(s, invalid_argument("duplicate option", sp.name))
         ELSE [s EXCEPT !.args = r.args,
                        !.options[i].values = <<r.value>> \o @]

OptionToken(s, arg, rest) ==
    LET sp == SplitNameValue(arg)
        i == FindOption(s.options, sp.name)
    IN
    IF i = 0 THEN Leave(s, invalid_argument("unrecognized option", sp.name))
    ELSE LET r == ResolveValue(s.options[i], sp, rest) IN
         IF ~r.ok THEN Leave(s, r.err)
         ELSE IF IsDuplicate(s.options[i])
         THEN Leave(s, invalid_argument("duplicate option", sp.name))
         ELSE [s EXCEPT !.args = r.args,
                        !.options[i].values = Append(@, r.value)]

\* variant: the end-of-options flag is not consulted
scan_token_noflag(s) ==
    LET arg == Head(s.args)
        rest == Tail(s.args)
    IN
    IF is_not_option(arg)
    THEN [s EXCEPT !.args = rest, !.saved = Append(@, arg),
                   !.positional = Append(@, arg)]
    ELSE IF arg = DashDash
    THEN [s EXCEPT !.args = rest, !.had_token = TRUE]
    ELSE OptionToken(s, arg, rest)

\* variant: the required options are checked before every token
scan_token_eager(s) ==
    LET arg == Head(s.args)
        rest == Tail(s.args)
    IN
    IF \E i \in 1..Len(s.options) : s.options[i].req /\ s.options[i].values = <<>>
    THEN Leave(s, missing_argument("option is required", Str0))
    ELSE IF s.had_token \/ is_not_option(arg)
    THEN [s EXCEPT !.args = rest, !.saved = Append(@, arg),
                   !.positional = Append(@, arg)]
    ELSE IF arg = DashDash
    THEN [s EXCEPT !.args = rest, !.had_token = TRUE]
    ELSE OptionToken(s, arg, rest)

\* variant: an empty token is dropped
scan_token_skipempty(s) ==
    LET arg == Head(s.args)
        rest == Tail(s.args)
    IN
    IF arg = Str0 THEN [s EXCEPT !.args = rest]
    ELSE IF s.had_token \/ is_not_option(arg)
    THEN [s EXCEPT !.args = rest, !.saved = Append(@, arg),
                   !.positional = Append(@, arg)]
    ELSE IF arg = DashDash
    THEN [s EXCEPT !.args = rest, !.had_token = TRUE]
    ELSE OptionToken(s, arg, rest)

\* variant: the first positional token ends the options
scan_token_posix(s) ==
    LET arg == Head(s.args)
        rest == Tail(s.args)
    IN
    IF s.had_token \/ is_not_option(arg)
    THEN [s EXCEPT !.args = rest, !.saved = Append(@, arg),
                   !.positional = Append(@, arg), !.had_token = TRUE]
    ELSE IF arg = DashDash
    THEN [s EXCEPT !.args = rest, !.had_token = TRUE]
    ELSE OptionToken(s, arg, rest)

scan_token(s) ==
    LET arg == Head(s.args)
        rest == Tail(s.args)
    IN
    IF s.had_token \/ is_not_option(arg)
    THEN [s EXCEPT !.args = rest, !.saved = Append(@, arg),
                   !.positional = Append(@, arg)]
    ELSE IF arg = DashDash
    THEN [s EXCEPT !.args = rest, !.had_token = TRUE]
    ELSE OptionToken(s, arg, rest)

----------------------------------------------------------------------------
(* args::parse: after the loop *)

\* variant: an option given a short name is never reported missing
MissingRequired_longonly(opts) ==
    {i \in 1..Len(opts) : opts[i].req /\ opts[i].values = <<>> /\ opts[i].short = Str0}

MissingRequired(opts) ==
    {i \in 1..Len(opts) : opts[i].req /\ opts[i].values = <<>>}

FirstOf(S) == CHOOSE i \in S : \A j \in S : i <= j

RequiredName(o) ==
    IF o.short = Str0 THEN o.long
    ELSE IF o.long = Str0 THEN o.short
    ELSE o.short \o <<",", " ">> \o o.long

\* variant: every param is counted, optional or not
CountNonOpt_all(pars) == Len(pars)

CountNonOpt(pars) == Cardinality({i \in 1..Len(pars) : ~pars[i].opt})

\* variant: the required options are not checked before the params are bound
check_required_skip(s) ==
    [s EXCEPT !.pc = "params", !.it = 1, !.req_n = CountNonOpt(s.params)]

check_required(s) ==
    IF MissingRequired(s.options) # {}
    THEN Leave(s, missing_argument("option is required",
                    RequiredName(s.options[FirstOf(MissingRequired(s.options))])))
    ELSE [s EXCEPT !.pc = "params", !.it = 1, !.req_n = CountNonOpt(s.params)]

\* variant: < for <=
NotEnoughForOpt_strict(size, n) == size < n

\* else if (saved.size() <= req_n) continue
NotEnoughForOpt(size, n) == size <= n

\* variant: > for >=
MunchMore_strict(mul, size, left) == mul /\ size > left

\* while (it->mul_ && saved.size() >= end - it)
MunchMore(mul, size, left) == mul /\ size >= left

\* variant: the do-while body runs once
Munch_once(mul, size, left) == 1

\* number of values the do-while takes off a queue of `size` (>= 1) values
RECURSIVE Munch(_, _, _)
Munch(mul, size, left) ==
    IF MunchMore(mul, size - 1, left) THEN 1 + Munch(mul, size - 1, left) ELSE 1

\* variant: the values are taken from the back of the saved tokens
process_param_back(s) ==
    LET p == s.params[s.it]
        n == IF ~p.opt THEN s.req_n - 1 ELSE s.req_n
        left == Len(s.params) - s.it + 1
    IN
    IF p.opt /\ NotEnoughForOpt(Len(s.saved), n)
    THEN [s EXCEPT !.it = @ + 1]
    ELSE IF Len(s.saved) > 0
    THEN LET k == Munch(p.mul, Len(s.saved), left) IN
         [s EXCEPT !.params[s.it].values =
                        @ \o SubSeq(s.saved, Len(s.saved) - k + 1, Len(s.saved)),
                   !.saved = SubSeq(@, 1, Len(@) - k),
                   !.req_n = n, !.it = @ + 1]
    ELSE Leave(s, missing_argument("param is required", p.name))

process_param(s) ==
    LET p == s.params[s.it]
        n == IF ~p.opt THEN s.req_n - 1 ELSE s.req_n
        left == Len(s.params) - s.it + 1
    IN
    IF p.opt /\ NotEnoughForOpt(Len(s.saved), n)
    THEN [s EXCEPT !.it = @ + 1]
    ELSE IF Len(s.saved) > 0
    THEN LET k == Munch(p.mul, Len(s.saved), left) IN
         [s EXCEPT !.params[s.it].values = @ \o SubSeq(s.saved, 1, k),
                   !.saved = SubSeq(@, k + 1, Len(@)),
                   !.req_n = n, !.it = @ + 1]
    ELSE Leave(s, missing_argument("param is required", p.name))

\* variant: one left-over value is let through
parse_end_lenient(s) ==
    IF Len(s.saved) > 1
    THEN Leave(s, invalid_argument("extra param", s.saved[1]))
    ELSE Leave(s, NoErr)

parse_end(s) ==
    IF Len(s.saved) > 0
    THEN Leave(s, invalid_argument("extra param", s.saved[1]))
    ELSE Leave(s, NoErr)

----------------------------------------------------------------------------
(* A whole call of args::parse *)

parse_step(s) ==
    IF s.pc = "scan"
    THEN IF Len(s.args) > 0 THEN scan_token(s) ELSE check_required(s)
    ELSE IF s.it <= Len(s.params) THEN process_param(s) ELSE parse_end(s)

RECURSIVE parse_run(_)
parse_run(s) == IF s.pc = "idle" THEN s ELSE parse_run(parse_step(s))

parse(s, a) == parse_run(parse_begin(s, a))

----------------------------------------------------------------------------
(* Inputs: the definitions a program declares and the command lines it gets *)

RECURSIVE SeqsUpTo(_, _)
SeqsUpTo(S, n) ==
    IF n = 0 THEN {<<>>}
    ELSE LET R == SeqsUpTo(S, n - 1) IN
         R \cup {Append(r, x) : r \in {q \in R : Len(q) = n - 1}, x \in S}

Def(names, spc) == [names |-> names, spc |-> spc]

DefA == Def(<<(<<"-", "a">>)>>, {})

DefB == Def(<<(<<"-", "b">>), (<<"-", "-", "b", "e", "e">>)>>, {"mul"})

DefO == Def(<<(<<"-", "o">>), (<<"-", "-", "o", "u", "t">>), (<<"V">>)>>, {"req"})

DefP1 == Def(<<(<<"p", "1">>)>>, {})

DefP2 == Def(<<(<<"p", "2">>)>>, {"opt", "mul"})

DefCalls == {DefA, DefB, DefO, DefP1, DefP2}

TokA == <<"-", "a">>

TokB == <<"-", "b">>

TokBee == <<"-", "-", "b", "e", "e">>

TokO == <<"-", "o">>

TokOut == <<"-", "-", "o", "u", "t">>

TokX == <<"x">>

TokZ == <<"-", "z">>

TokOX == <<"-", "o", "x">>

Tokens == {TokA, TokB, TokBee, TokO, TokOX, TokOut, DashDash, TokX, TokZ}

\* tokens made of short-option letters: -ab, -ba, -aab, ...
Groups == {Dash \o g : g \in {q \in SeqsUpTo({"a", "b"}, MaxGroup) : Len(q) >= 2}}

Values == {TokX, Str0, DashDash, TokA, <<"=", "x">>}

\* an option and its value in one token: -o<v>, --out=<v>
InlineForms == {TokO \o v : v \in Values} \cup {TokOut \o <<"=">> \o v : v \in Values}

Argvs == SeqsUpTo(Tokens, MaxArgs) \cup {<<g>> : g \in Groups}
            \cup {<<f>> : f \in InlineForms}

\* the k-th positional parameter a program declares, and the k-th value it gets
Digit(k) == <<"0", "1", "2", "3", "4", "5", "6", "7", "8", "9">>[k + 1]

PName(k) == <<"p", Digit(k)>>

PValue(k) == <<"t", Digit(k)>>

ParamCalls == {Def(<<PName(Len(params) + 1)>>, f) : f \in SUBSET {"opt", "mul"}}

PosArgv(n) == [k \in 1..n |-> PValue(k)]

PosArgvs == {pre \o PosArgv(n) : pre \in {<<>>, <<TokOX>>, <<TokZ>>},
                                  n \in 0..MaxPos}

\* definitions that collide with DefA, DefB, DefO in one name, or are malformed
DefABee == Def(<<TokA, TokBee>>, {})

DefOut == Def(<<TokOut>>, {"optval"})

DefBV == Def(<<TokB, (<<"V">>)>>, {})

DefBad1 == Def(<<DashDash>>, {})

DefBad2 == Def(<<TokA, Dash>>, {})

DefBad3 == Def(<<TokOut, Dash>>, {})

DefBad4 == Def(<<TokO, TokX, (<<"V">>)>>, {"mul"})

NamedParams == {Def(<<PName(k)>>, f) : k \in {1, 2}, f \in SUBSET {"opt", "mul"}}

WideDefs == {DefA, DefB, DefO, DefABee, DefOut, DefBV,
             DefBad1, DefBad2, DefBad3, DefBad4} \cup NamedParams

LookupNames == {Str0, TokA, TokB, TokBee, TokO, TokOut, TokZ, PName(1), PName(2)}

DefsArgvs == {<<TokA>>, <<TokB, TokBee>>, <<TokOX, TokX>>, <<TokX, TokX>>}

\* a repeatable option with a value, and command lines that repeat options
DefE == Def(<<(<<"-", "e">>), (<<"-", "-", "e", "e">>), (<<"V">>)>>, {"mul"})

MulDefs == {DefA, DefB, DefE, DefP2}

TokE == <<"-", "e">>

TokEe == <<"-", "-", "e", "e">>

MulTokens == {TokA, TokB, TokBee, TokE, TokEe, TokX, DashDash,
              TokE \o <<"x">>, TokEe \o <<"=", "y">>, TokBee \o <<"=", "x">>,
              <<"-", "b", "b">>, <<"-", "b", "a", "b">>,
              <<"-", "b", "e">>, <<"-", "b", "e", "x">>}

MulArgvs == SeqsUpTo(MulTokens, MaxArgs)

\* an option with an optional value, and command lines that give, omit or
\* misplace option values
DefC == Def(<<(<<"-", "c">>), (<<"-", "-", "c", "e", "e">>), (<<"V">>)>>, {"optval"})

ValDefs == {DefA, DefB, DefO, DefC, DefP2}

TokC == <<"-", "c">>

TokCee == <<"-", "-", "c", "e", "e">>

ValTokens == {Str0, Dash, DashDash, TokA, TokX,
              TokO, TokOX, TokOut, TokOut \o <<"=">>,
              TokC, TokC \o <<"x">>, TokCee, TokCee \o <<"=">>, TokCee \o <<"=", "x">>,
              TokBee \o <<"=">>, TokBee \o <<"=", "x">>}

ValArgvs == SeqsUpTo(ValTokens, MaxArgs)

\* definitions given a flag of the other kind: pgm::opt on options, pgm::req
\* and pgm::optval on params
FlagDefs == {Def(<<TokA>>, {"opt"}),
             Def(<<TokO, TokOut, (<<"V">>)>>, {"req", "opt"}),
             Def(<<TokC, TokCee, (<<"V">>)>>, {"optval", "mul", "opt"}),
             Def(<<PName(1)>>, {"optval"}),
             Def(<<PName(2)>>, {"opt", "mul", "req"})}

FlagArgvs == SeqsUpTo({TokA, TokO, TokOX, TokC, TokX, DashDash}, MaxArgs)

\* names of every class, and the two-name definitions made of them
PairNames == {TokA, TokBee, <<"V">>, TokX, Str0, Dash, DashDash, <<"-", "a", "b">>}

PairDefs == {Def(<<n1, n2>>, f) : n1 \in PairNames, n2 \in PairNames,
                                  f \in {{}, {"mul"}}}

----------------------------------------------------------------------------
\* options declared with pgm::optval and no value name, next to one that names
\* its value, and command lines that give them values or none
DefAQ == Def(<<TokA>>, {"optval"})

DefBQ == Def(<<TokB, TokBee>>, {"optval", "mul"})

OptvalDefs == {DefAQ, DefBQ, DefOut, DefC, DefP2}

OptvalTokens == {TokA, TokB, TokBee, TokOut, TokC, TokX, DashDash,
                 <<"-", "a", "b">>, TokA \o <<"x">>,
                 TokOut \o <<"=">>, TokBee \o <<"=", "x">>}

OptvalArgvs == SeqsUpTo(OptvalTokens, MaxArgs)

----------------------------------------------------------------------------

\* command lines whose short-option groups carry hyphens: -a-, -a-b, -a-bee
DashTokens == {TokA, TokB, TokBee, TokX, DashDash, <<"-", "a", "b">>,
               <<"-", "a", "-">>, <<"-", "a", "-", "b">>,
               <<"-", "a", "-", "b", "e", "e">>}

DashArgvs == SeqsUpTo(DashTokens, MaxArgs)

----------------------------------------------------------------------------

\* no-value options and params, and command lines of up to MaxMix tokens that
\* mix option tokens with positional ones
MixDefs == {DefA, DefB, DefP1, DefP2}

MixTokens == {TokA, TokB, TokBee, <<"-", "a", "b">>, TokZ, TokX, <<"y">>}

MixArgvs == SeqsUpTo(MixTokens, MaxMix)

----------------------------------------------------------------------------

(* Actions *)

Init ==
    /\ options = <<>>
    /\ params = <<>>
    /\ pc = "idle"
    /\ argv = <<>>
    /\ args = <<>>
    /\ had_token = FALSE
    /\ saved = <<>>
    /\ it = 0
    /\ req_n = 0
    /\ err = NoErr
    /\ positional = <<>>
    /\ entry = <<(<<>>), (<<>>)>>
    /\ nparse = 0
    /\ last = "none"
    /\ ret = NoRet

Add(d) == pc = "idle" /\ Install(add(St, d))

ParseBegin(a) == pc = "idle" /\ Install(parse_begin(St, a))

ScanToken == pc = "scan" /\ Len(args) > 0 /\ Install(scan_token(St))

CheckRequired == pc = "scan" /\ Len(args) = 0 /\ Install(check_required(St))

ProcessParam == pc = "params" /\ it <= Len(params) /\ Install(process_param(St))

ParseEnd == pc = "params" /\ it > Len(params) /\ Install(parse_end(St))

Lookup(name) == pc = "idle" /\ Install(lookup(St, name))

\* a program with options and params, parsing up to MaxParses command lines
Next ==
    \/ \E d \in DefCalls : Len(options) + Len(params) < MaxDefs /\ Add(d)
    \/ \E a \in Argvs : nparse < MaxParses /\ ParseBegin(a)
    \/ ScanToken
    \/ CheckRequired
    \/ ProcessParam
    \/ ParseEnd

Spec == Init /\ [][Next]_vars

\* a program with up to MaxParams params, parsing once on the fresh registry
NextParams ==
    \/ \E d \in ParamCalls : Len(params) < MaxParams /\ Add(d)
    \/ Len(options) = 0 /\ Add(DefO)
    \/ \E a \in PosArgvs : nparse = 0 /\ ParseBegin(a)
    \/ ScanToken
    \/ CheckRequired
    \/ ProcessParam
    \/ ParseEnd

SpecParams == Init /\ [][NextParams]_vars

\* a program declaring well-formed, colliding and malformed definitions,
\* parsing once and examining the registry with operator[]
NextDefs ==
    \/ \E d \in WideDefs : Len(options) + Len(params) < MaxDefs /\ Add(d)
    \/ \E a \in DefsArgvs : nparse = 0 /\ ParseBegin(a)
    \/ ScanToken
    \/ CheckRequired
    \/ ProcessParam
    \/ ParseEnd
    \/ \E n \in LookupNames : Lookup(n)

SpecDefs == Init /\ [][NextDefs]_vars

\* a program with repeatable options, parsing once on the fresh registry
NextMul ==
    \/ \E d \in MulDefs : Len(options) + Len(params) < MaxDefs /\ Add(d)
    \/ \E a \in MulArgvs : nparse = 0 /\ ParseBegin(a)
    \/ ScanToken
    \/ CheckRequired
    \/ ProcessParam
    \/ ParseEnd

SpecMul == Init /\ [][NextMul]_vars

\* the same program; a parse call that has begun runs on, statement after
\* statement, until it returns or throws
SpecMulLive ==
    SpecMul /\ WF_vars(ScanToken \/ CheckRequired \/ ProcessParam \/ ParseEnd)

\* a program with value-taking options, parsing once on the fresh registry
NextVal ==
    \/ \E d \in ValDefs : Len(options) + Len(params) < MaxDefs /\ Add(d)
    \/ \E a \in ValArgvs : nparse = 0 /\ ParseBegin(a)
    \/ ScanToken
    \/ CheckRequired
    \/ ProcessParam
    \/ ParseEnd

SpecVal == Init /\ [][NextVal]_vars

\* a program whose definitions carry flags of the other kind
NextFlags ==
    \/ \E d \in FlagDefs : Len(options) + Len(params) < MaxDefs /\ Add(d)
    \/ \E a \in FlagArgvs : nparse = 0 /\ ParseBegin(a)
    \/ ScanToken
    \/ CheckRequired
    \/ ProcessParam
    \/ ParseEnd

SpecFlags == Init /\ [][NextFlags]_vars

\* a program declaring options by two names
NextPairs ==
    \E d \in PairDefs : Len(options) < MaxDefs /\ Add(d)

SpecPairs == Init /\ [][NextPairs]_vars

----------------------------------------------------------------------------
\* a program whose options ask for an optional value without naming a value
NextOptval ==
    \/ \E d \in OptvalDefs : Len(options) + Len(params) < MaxDefs /\ Add(d)
    \/ \E a \in OptvalArgvs : nparse = 0 /\ ParseBegin(a)
    \/ ScanToken
    \/ CheckRequired
    \/ ProcessParam
    \/ ParseEnd

SpecOptval == Init /\ [][NextOptval]_vars

----------------------------------------------------------------------------

\* a program with no-value options, given groups that carry hyphens
NextDash ==
    \/ \E d \in {DefA, DefB, DefP2} : Len(options) + Len(params) < MaxDefs /\ Add(d)
    \/ \E a \in DashArgvs : nparse = 0 /\ ParseBegin(a)
    \/ ScanToken
    \/ CheckRequired
    \/ ProcessParam
    \/ ParseEnd

SpecDash == Init /\ [][NextDash]_vars

----------------------------------------------------------------------------

\* a program with no-value options and params, parsing one mixed command line
NextMix ==
    \/ \E d \in MixDefs : Len(options) + Len(params) < MaxDefs /\ Add(d)
    \/ \E a \in MixArgvs : nparse = 0 /\ ParseBegin(a)
    \/ ScanToken
    \/ CheckRequired
    \/ ProcessParam
    \/ ParseEnd

SpecMix == Init /\ [][NextMix]_vars

----------------------------------------------------------------------------

(* Vocabulary of the properties *)

\* a parse call has returned or thrown, and nothing was called since
Done == pc = "idle" /\ last = "parse"

\* the registry held no value when the running (or last) parse was entered
Fresh ==
    /\ \A i \in 1..Len(entry[1]) : entry[1][i].values = <<>>
    /\ \A i \in 1..Len(entry[2]) : entry[2][i].values = <<>>

ScanErrors == {"unrecognized option", "doesn't take values", "requires a value",
               "duplicate option"}

\* the scan loop raised nothing
ScanPassed == err.what \notin ScanErrors

\* the scan loop and the required-option check raised nothing
BindingReached == ScanPassed /\ err.what # "option is required"

T == Len(params)

M == Cardinality({i \in 1..Len(params) : ~params[i].opt})

P == Len(positional)

Count(i) == Len(params[i].values)

\* number of optional params among the first i params
OptRank(i) == Cardinality({j \in 1..i : params[j].opt})

RECURSIVE ConcatValues(_, _)
ConcatValues(pars, n) ==
    IF n = 0 THEN <<>> ELSE ConcatValues(pars, n - 1) \o pars[n].values

MissingParam == err.kind = "missing_argument" /\ err.what = "param is required"

ExtraParam == err.kind = "invalid_argument" /\ err.what = "extra param"

----------------------------------------------------------------------------
(* Positional binding *)

\* C1: on a fresh registry with M <= P < T, parse succeeds; every mandatory
\* param holds exactly one token, the first P-M optional params (in declaration
\* order) hold one token each, the later optional params hold none, and the
\* tokens are bound in declaration order.
C1_BindFewer ==
    (Done /\ Fresh /\ BindingReached /\ M <= P /\ P < T) =>
        /\ err = NoErr
        /\ \A i \in 1..T :
              Count(i) = IF ~params[i].opt THEN 1
                         ELSE IF OptRank(i) <= P - M THEN 1 ELSE 0
        /\ ConcatValues(params, T) = positional

\* five params, optional and mandatory interleaved, one optional filled and
\* a later one left empty
C1_Witness ==
    /\ Done /\ Fresh /\ BindingReached /\ err = NoErr
    /\ T = 5 /\ M = 3 /\ P = 4
    /\ params[2].opt /\ ~params[3].opt /\ params[4].opt /\ ~params[5].opt
    /\ Count(2) = 1 /\ Count(4) = 0

\* C2: on a fresh registry, once the scan and the required-option check have
\* passed, parse raises missing_argument for a param iff P < M.
C2_MissingIff ==
    (Done /\ Fresh /\ BindingReached) => (MissingParam <=> P < M)

\* two of three mandatory params supplied, after an option was scanned
C2_Witness ==
    /\ Done /\ Fresh /\ MissingParam
    /\ M = 3 /\ P = 2 /\ T = 5
    /\ Len(options) = 1 /\ options[1].values # <<>>

\* C3: with a repeatable param and P >= T, parse succeeds, the repeatable
\* param holds P-T+1 consecutive tokens and every other param holds one.
C3_MulTakesRest ==
    (Done /\ Fresh /\ BindingReached /\ HasMul(params) /\ P >= T) =>
        /\ err = NoErr
        /\ \A i \in 1..T : Count(i) = IF params[i].mul THEN P - T + 1 ELSE 1
        /\ ConcatValues(params, T) = positional

\* the repeatable param sits between an optional and a mandatory param and
\* takes three tokens
C3_Witness ==
    /\ Done /\ Fresh /\ err = NoErr
    /\ T = 4 /\ P = 6
    /\ params[1].opt /\ params[2].mul /\ ~params[3].opt /\ params[4].opt
    /\ Count(2) = 3 /\ Count(4) = 1

\* C4: when the only param is repeatable, after parse its values() are the
\* N positional tokens of argv in encounter order and count() = N.
C4_RoundTrip ==
    (Done /\ Fresh /\ BindingReached /\ T = 1 /\ HasMul(params)) =>
        /\ params[1].values = positional
        /\ Count(1) = P

C4_Witness ==
    /\ Done /\ Fresh /\ T = 1 /\ params[1].mul /\ err = NoErr
    /\ argv = positional /\ P = 4 /\ Count(1) = 4

\* C10: once the scan and the earlier checks have passed, parse raises
\* invalid_argument (extra param) iff no param is repeatable and P > T.
C10_ExtraIff ==
    (Done /\ Fresh /\ BindingReached) =>
        (ExtraParam <=> (~HasMul(params) /\ P > T))

\* three plain params and five tokens: the fourth token is the extra one
C10_Witness ==
    /\ Done /\ Fresh /\ ExtraParam
    /\ T = 3 /\ P = 5 /\ err.name = PValue(4)
    /\ \A i \in 1..T : Count(i) = 1

----------------------------------------------------------------------------
(* Option scanning *)

\* C5: once `--` has been consumed as the terminator, every later token of
\* argv is pushed onto the positional queue and no option is looked up or
\* changed, whatever the token looks like; the terminator itself is bound to
\* nothing.
C5_Terminator ==
    [][(pc = "scan" /\ Len(args) > 0) =>
          /\ had_token =>
                /\ args = SubSeq(argv, Len(argv) - Len(args) + 1, Len(argv))
                /\ saved' = Append(saved, Head(args))
                /\ options' = options
                /\ pc' = "scan" /\ had_token' /\ err' = err
          /\ (~had_token /\ had_token') =>
                /\ Head(args) = DashDash
                /\ saved' = saved
                /\ options' = options /\ params' = params
      ]_vars

\* `-a` names a defined option, comes after `--`, and ends up a positional
C5_Witness ==
    /\ Done /\ argv = <<DashDash, TokA>> /\ positional = <<TokA>>
    /\ HasShort(options, TokA)
    /\ \A i \in 1..Len(options) : options[i].values = <<>>

\* the state in which the running (or last) parse was entered
EntryState ==
    [St EXCEPT !.options = entry[1], !.params = entry[2], !.pc = "idle",
               !.nparse = @ - 1]

Outcome(s) == <<s.options, s.params, s.err>>

\* -abc  ~>  -a -b -c
Separate(g) == [k \in 1..(Len(g) - 1) |-> <<"-", g[k + 1]>>]

NoValueShort(opts, c) ==
    \E i \in 1..Len(opts) : opts[i].short = <<"-", c>> /\ opts[i].valname = Str0

\* C6: for a group of defined no-value short options, parsing the grouped
\* token leaves the same values, or raises the same error, as parsing the
\* options as separate tokens.
C6_GroupEquiv ==
    (/\ Done /\ Len(argv) = 1 /\ argv[1] \in Groups
     /\ \A k \in 2..Len(argv[1]) : NoValueShort(entry[1], argv[1][k]))
        => Outcome(St) = Outcome(parse(EntryState, Separate(argv[1])))

C6_Witness ==
    /\ Done /\ argv = <<(<<"-", "a", "b", "b">>)>> /\ err = NoErr
    /\ \E i, j \in 1..Len(options) :
          /\ options[i].short = TokA /\ options[i].values = <<Str0>>
          /\ options[j].short = TokB /\ options[j].values = <<Str0, Str0>>

RequiresValue(o) == o.valname # Str0 /\ ~o.optval

\* -o<v> against -o <v>, and --out=<v> against --out <v>
InlineAgrees(v, shortOk, longOk) ==
    \A i \in 1..Len(entry[1]) :
        LET o == entry[1][i] IN
        RequiresValue(o) =>
            /\ (shortOk /\ Done /\ o.short # Str0 /\ argv = <<o.short \o v>>)
                  => Outcome(St) = Outcome(parse(EntryState, <<o.short, v>>))
            /\ (longOk /\ Done /\ o.long # Str0 /\ argv = <<o.long \o <<"=">> \o v>>)
                  => Outcome(St) = Outcome(parse(EntryState, <<o.long, v>>))

\* C7 as stated: for an option that requires a value and every value string
\* v, [-o, v] parses as -o<v> does and [--out, v] as --out=<v> does.
C7_Original == \A v \in Values : InlineAgrees(v, TRUE, TRUE)

\* C7 as amended: the same for every value string v other than `--` and,
\* in the short form, other than the empty string.
C7_InlineEquiv ==
    \A v \in Values : InlineAgrees(v, v # DashDash /\ v # Str0, v # DashDash)

\* --out=-a: the value looks like a defined option and is taken as the value
C7_Witness ==
    /\ Done /\ argv = <<TokOut \o <<"=">> \o TokA>> /\ err = NoErr
    /\ HasShort(options, TokA)
    /\ \E i \in 1..Len(options) : options[i].long = TokOut /\ options[i].values = <<TokA>>

\* C8: on a fresh registry with a required option, and an argv that is
\* otherwise valid, parse raises missing_argument when the option does not
\* occur and succeeds when it occurs exactly once.
C8_Required ==
    (Done /\ Fresh /\ ScanPassed) =>
        /\ (\E i \in 1..Len(options) : options[i].req /\ options[i].values = <<>>)
              => (err.kind = "missing_argument" /\ err.what = "option is required")
        /\ (/\ \E i \in 1..Len(options) : options[i].req
            /\ \A i \in 1..Len(options) : options[i].req => Len(options[i].values) = 1
            /\ M <= P /\ (P <= T \/ HasMul(params)))
              => err = NoErr

\* another option and a positional are given, the required one is not
C8_Witness ==
    /\ Done /\ Fresh /\ argv = <<TokA, TokX>>
    /\ err = missing_argument("option is required", TokO \o <<",", " ">> \o TokOut)
    /\ \E i \in 1..Len(options) : options[i].short = TokA /\ options[i].values = <<Str0>>

\* the scan is about to look up option i for the token at the head of the queue
Occurrence(i) ==
    /\ pc = "scan" /\ Len(args) > 0
    /\ ~had_token /\ ~is_not_option(Head(args)) /\ Head(args) # DashDash
    /\ i = FindOption(options, SplitNameValue(Head(args)).name)

ValueOf(i) == ResolveValue(options[i], SplitNameValue(Head(args)), Tail(args))

\* C9 as stated: a second occurrence of an option not marked repeatable makes
\* parse fail with invalid_argument (duplicate option).  Stated here for two
\* occurrences on one command line, parsed on a fresh registry.
C9_Original ==
    [][\A i \in 1..Len(options) :
          (Fresh /\ Occurrence(i) /\ ~options[i].mul /\ options[i].values # <<>>) =>
              /\ pc' = "idle"
              /\ err'.kind = "invalid_argument" /\ err'.what = "duplicate option"
      ]_vars

\* C9 as amended: a second occurrence of an option not marked repeatable makes
\* parse fail, with invalid_argument (duplicate option) when the value of the
\* occurrence resolves and with the value error of the occurrence otherwise;
\* an occurrence of a repeatable option never raises duplicate option and is
\* recorded when its value resolves.
C9_Duplicate ==
    [][\A i \in 1..Len(options) :
          /\ (Occurrence(i) /\ ~options[i].mul /\ options[i].values # <<>>) =>
                /\ pc' = "idle" /\ options' = options
                /\ err' = IF ValueOf(i).ok
                           THEN invalid_argument("duplicate option",
                                                 SplitNameValue(Head(args)).name)
                           ELSE ValueOf(i).err
          /\ (Occurrence(i) /\ options[i].mul) =>
                /\ err'.what # "duplicate option"
                /\ ValueOf(i).ok =>
                      /\ pc' = "scan"
                      /\ options'[i].values = Append(options[i].values, ValueOf(i).value)
      ]_vars

\* the second -a sits inside a group, after a repeatable -b
C9_Witness ==
    /\ Done /\ argv = <<(<<"-", "a", "b", "a">>)>>
    /\ err = invalid_argument("duplicate option", TokA)
    /\ \E j \in 1..Len(options) : options[j].short = TokB /\ options[j].values = <<Str0>>

----------------------------------------------------------------------------
(* Error kinds *)

ParseKinds == {"invalid_argument", "missing_argument"}

\* C11: whenever a parse call has ended, on any registry and any command line,
\* it either returned or threw invalid_argument or missing_argument; it never
\* threw invalid_definition or anything else.
C11_ParseKinds ==
    Done => err.kind \in ParseKinds \cup {"none"}

\* the second parse of a program fails in the scan, on a registry that already
\* holds values
C11_Witness ==
    /\ Done /\ nparse = 2 /\ ~Fresh
    /\ err = missing_argument("requires a value", TokO)

\* an add call has returned or thrown, and nothing was called since
Added == pc = "idle" /\ last = "add"

\* C12 as stated: every add call that rejects its definition (malformed name,
\* duplicate option or param name, second repeatable param) throws
\* invalid_definition.
C12_Original ==
    (Added /\ err # NoErr) => err.kind = "invalid_definition"

----------------------------------------------------------------------------
(* Order and number of the params *)

\* C13: after any sequence of add calls, succeeding or failing, at most one
\* param of the registry is marked repeatable, wherever it sits.
C13_OneMul ==
    Cardinality({i \in 1..Len(params) : params[i].mul}) <= 1

\* a second repeatable param was just refused; the first one is followed by
\* other params
C13_Witness ==
    /\ Added /\ err.what = "more than one multi-value param"
    /\ Len(params) >= 3 /\ params[1].mul

\* C14 as stated: in every reachable registry no mandatory param follows an
\* optional param in declaration order.
C14_Original ==
    \A i, j \in 1..Len(params) : (i < j /\ params[i].opt) => params[j].opt

\* C14 as amended: add accepts a mandatory param after an optional one; a
\* param with a new name is refused only as a second repeatable param.
C14_OrderFree ==
    pc = "idle" =>
        \A d \in ParamCalls :
            LET new_ == MakeArg(d).p
                r == add(St, d)
            IN
            (/\ ~new_.opt
             /\ \E i \in 1..Len(params) : params[i].opt
             /\ ~(new_.mul /\ \E i \in 1..Len(params) : params[i].mul)) =>
                /\ r.err = NoErr
                /\ r.params = Append(params, new_)

\* a mandatory param was just added right after an optional one
C14_Witness ==
    /\ Added /\ err = NoErr /\ Len(params) = 2
    /\ params[1].opt /\ ~params[1].mul /\ ~params[2].opt

\* C15 as stated: in every reachable registry no mandatory param follows a
\* repeatable param.
C15_Original ==
    \A i, j \in 1..Len(params) : (i < j /\ params[i].mul) => params[j].opt

\* C15 as amended: add accepts a param that is not repeatable, mandatory or
\* optional, after a repeatable param.
C15_AfterMul ==
    pc = "idle" =>
        \A d \in ParamCalls :
            LET new_ == MakeArg(d).p
                r == add(St, d)
            IN
            (~new_.mul /\ \E i \in 1..Len(params) : params[i].mul) =>
                /\ r.err = NoErr
                /\ r.params = Append(params, new_)

\* two mandatory params were added after a repeatable one
C15_Witness ==
    /\ Added /\ err = NoErr /\ Len(params) = 3
    /\ params[1].mul /\ ~params[2].opt /\ ~params[3].opt

----------------------------------------------------------------------------
(* Names *)

\* the definition an arg constructor built shares a name with a declared one
Collides(a) ==
    \/ /\ a.kind = "option"
       /\ \/ a.o.short # Str0 /\ \E i \in 1..Len(options) : options[i].short = a.o.short
          \/ a.o.long # Str0 /\ \E i \in 1..Len(options) : options[i].long = a.o.long
    \/ /\ a.kind = "param"
       /\ \E i \in 1..Len(params) : params[i].name = a.p.name

\* C16: in every reachable registry the non-empty short names are pairwise
\* distinct, the non-empty long names are pairwise distinct and the param
\* names are pairwise distinct; an add whose definition shares such a name
\* with a declared one throws invalid_definition and leaves the registry as
\* it was.
C16_UniqueNames ==
    /\ \A i, j \in 1..Len(options) :
          i # j =>
             /\ options[i].short # Str0 => options[i].short # options[j].short
             /\ options[i].long # Str0 => options[i].long # options[j].long
    /\ \A i, j \in 1..Len(params) : i # j => params[i].name # params[j].name
    /\ pc = "idle" =>
          \A d \in WideDefs :
              Collides(MakeArg(d)) =>
                 /\ add(St, d).err.kind = "invalid_definition"
                 /\ add(St, d).options = options
                 /\ add(St, d).params = params

\* an option with a new short name and the long name of a later option was
\* just refused
C16_Witness ==
    /\ Added /\ err = invalid_definition("duplicate option", TokBee)
    /\ Len(options) = 2 /\ options[2].long = TokBee
    /\ \A i \in 1..Len(options) : options[i].short # TokA

----------------------------------------------------------------------------
(* Lookup *)

\* an operator[] call has returned or thrown, and nothing was called since
Looked == pc = "idle" /\ last = "lookup"

\* the value lists of the definitions called `name`
ValuesNamed(name) ==
    {options[i].values : i \in {k \in 1..Len(options) :
                                  options[k].short = name \/ options[k].long = name}}
    \cup {params[j].values : j \in {k \in 1..Len(params) : params[k].name = name}}

\* C17: operator[] hands back the values of the one definition whose short,
\* long or param name is the name asked for (the same list for the short and
\* the long name of an option), throws invalid_argument when there is none or
\* the name is empty, and leaves the registry as it was, so asking again
\* gives the same answer.
C17_Lookup ==
    pc = "idle" =>
       /\ \A n \in LookupNames :
             LET r == lookup(St, n) IN
             /\ r.options = options /\ r.params = params
             /\ IF n # Str0 /\ ValuesNamed(n) # {}
                THEN /\ r.err = NoErr /\ r.ret.found
                     /\ ValuesNamed(n) = {r.ret.values}
                ELSE /\ r.err.kind = "invalid_argument" /\ ~r.ret.found
             /\ lookup(r, n).ret = r.ret /\ lookup(r, n).err = r.err
       /\ \A i \in 1..Len(options) :
             (options[i].short # Str0 /\ options[i].long # Str0) =>
                /\ lookup(St, options[i].short).ret.values = options[i].values
                /\ lookup(St, options[i].long).ret.values = options[i].values
       /\ Looked =>
             /\ ret = lookup(St, ret.name).ret
             /\ err = lookup(St, ret.name).err

\* after parsing -b --bee, the option is asked for by its long name
C17_Witness ==
    /\ Looked /\ nparse = 1 /\ argv = <<TokB, TokBee>>
    /\ ret = Ret(TRUE, TokBee, <<Str0, Str0>>)

----------------------------------------------------------------------------
(* Repeatable options *)

\* Reading of a command line over the options -a, -b/--bee (no value) and
\* -e/--ee (with a value): how often -b/--bee occurs, and the values given to
\* -e/--ee, in command-line order.  The value of -e is the rest of its token
\* or, when there is none, the next token.
NumB(t, from, to) == Cardinality({k \in from..to : t[k] = "b"})

RECURSIVE Read(_)
Read(q) ==
    IF q = <<>> \/ Head(q) = DashDash THEN [b |-> 0, e |-> <<>>]
    ELSE LET t == Head(q)
             next == Read(Tail(q))
             skip == Read(IF Len(q) >= 2 THEN SubSeq(q, 3, Len(q)) ELSE <<>>)
             val == IF Len(q) >= 2 THEN q[2] ELSE Str0
         IN
         IF t = TokBee THEN [next EXCEPT !.b = @ + 1]
         ELSE IF t = TokEe THEN [skip EXCEPT !.e = <<val>> \o @]
         ELSE IF Len(t) > 5 /\ SubSeq(t, 1, 5) = TokEe \o <<"=">>
         THEN [next EXCEPT !.e = <<SubSeq(t, 6, Len(t))>> \o @]
         ELSE IF Len(t) >= 2 /\ t[1] = "-" /\ t[2] # "-"
         THEN LET k == FindFrom(t, "e", 2) IN
              IF k = 0 THEN [next EXCEPT !.b = @ + NumB(t, 2, Len(t))]
              ELSE IF k < Len(t)
              THEN [next EXCEPT !.b = @ + NumB(t, 2, k - 1),
                                !.e = <<SubSeq(t, k + 1, Len(t))>> \o @]
              ELSE [skip EXCEPT !.b = @ + NumB(t, 2, k - 1), !.e = <<val>> \o @]
         ELSE next

\* C18: after a parse on a fresh registry whose option scan raised nothing,
\* a repeatable option holds one value per occurrence on the command line
\* (short name, long name or inside a group), in command-line order.
C18_Occurrences ==
    (Done /\ Fresh /\ ScanPassed) =>
        \A i \in 1..Len(options) :
            /\ (options[i].mul /\ options[i].short = TokB) =>
                  options[i].values = [k \in 1..Read(argv).b |-> Str0]
            /\ (options[i].mul /\ options[i].short = TokE) =>
                  options[i].values = Read(argv).e

\* -bex --ee=y: -b once inside a group, -e twice with its values in order
C18_Witness ==
    /\ Done /\ err = NoErr
    /\ argv = <<(<<"-", "b", "e", "x">>), TokEe \o <<"=", "y">>>>
    /\ \E i \in 1..Len(options) :
          options[i].short = TokB /\ Len(options[i].values) = 1
    /\ \E i \in 1..Len(options) :
          options[i].short = TokE /\ options[i].values = <<TokX, (<<"y">>)>>

\* C19: in every reachable state, every value recorded for an option without
\* a value name is the empty string.
C19_EmptyValues ==
    \A i \in 1..Len(options) :
        options[i].valname = Str0 =>
            \A k \in 1..Len(options[i].values) : options[i].values[k] = Str0

\* -bab: -b is recorded twice and -a once, each from inside the group
C19_Witness ==
    /\ Done /\ err = NoErr /\ argv = <<(<<"-", "b", "a", "b">>)>>
    /\ \E i \in 1..Len(options) :
          options[i].short = TokB /\ options[i].values = <<Str0, Str0>>
    /\ \E i \in 1..Len(options) :
          options[i].short = TokA /\ options[i].values = <<Str0>>

----------------------------------------------------------------------------
(* Options survive the late errors *)

LateErrors == {"option is required", "param is required", "extra param"}

\* the registry at entry of the parse, with no option required and with one
\* optional repeatable param in place of the declared params: a parse on it
\* cannot raise a late error
Relaxed ==
    [EntryState EXCEPT
        !.options = [i \in 1..Len(entry[1]) |-> [entry[1][i] EXCEPT !.req = FALSE]],
        !.params = <<make_param(PName(0), {"opt", "mul"})>>]

\* C20: when parse fails because a required option is missing, a mandatory
\* param is missing or a positional token is extra, the options hold what a
\* parse of the same command line without those three demands records, and
\* operator[] reports every option given on the command line as present.
C20_OptionsRecorded ==
    (Done /\ err.what \in LateErrors) =>
        LET R == parse(Relaxed, argv) IN
        /\ R.err = NoErr
        /\ Len(R.options) = Len(options)
        /\ \A i \in 1..Len(options) :
              /\ options[i].values = R.options[i].values
              /\ R.options[i].values # <<>> =>
                    LET n == IF options[i].long # Str0 THEN options[i].long
                             ELSE options[i].short
                        r == lookup(St, n)
                    IN r.err = NoErr /\ r.ret.values # <<>>

\* -a x is given, the required -o is not: parse throws and -a is recorded
C20_Witness ==
    /\ Done /\ err.kind = "missing_argument" /\ err.what = "option is required"
    /\ argv = <<TokA, TokX>>
    /\ \E i \in 1..Len(options) : options[i].short = TokA /\ options[i].values = <<Str0>>
    /\ \E i \in 1..Len(options) : options[i].short = TokO /\ options[i].values = <<>>

----------------------------------------------------------------------------
(* Classes of tokens and values of options *)

\* C21: whenever the scan takes an empty token or a single hyphen off the
\* queue, before or after the terminator, the token is saved as a positional
\* token: no option is looked up or changed and no error is raised.
C21_DashPositional ==
    [][(pc = "scan" /\ Len(args) > 0 /\ Head(args) \in {Str0, Dash}) =>
          /\ pc' = "scan" /\ err' = NoErr
          /\ args' = Tail(args)
          /\ saved' = Append(saved, Head(args))
          /\ positional' = Append(positional, Head(args))
          /\ options' = options /\ had_token' = had_token
      ]_vars

\* "" and "-" are given before any terminator and end up in the param
C21_Witness ==
    /\ Done /\ err = NoErr /\ argv = <<Str0, Dash>>
    /\ Len(params) = 1 /\ params[1].values = <<Str0, Dash>>
    /\ Len(options) = 2

----------------------------------------------------------------------------
(* Flags of the other kind *)

\* the flags that do not apply to the kind of definition d
Invalid(d) == IF d.names[1][1] = "-" THEN {"opt"} ELSE {"req", "optval"}

Strip(d) == Def(d.names, d.spc \ Invalid(d))

\* the definition of FlagDefs that declares the name n first
Declared(n) == CHOOSE d \in FlagDefs : d.names[1] = n

RECURSIVE AddAll(_, _)
AddAll(s, ds) == IF ds = <<>> THEN s ELSE AddAll(add(s, Head(ds)), Tail(ds))

\* the registry the running parse was entered with, declared again without
\* the flags of the other kind
StrippedEntry ==
    AddAll([EntryState EXCEPT !.options = <<>>, !.params = <<>>],
           [i \in 1..Len(entry[1]) |-> Strip(Declared(entry[1][i].short))]
           \o [i \in 1..Len(entry[2]) |-> Strip(Declared(entry[2][i].name))])

\* C22: a definition carrying a flag of the other kind is added exactly as
\* the definition without it, and a parse on a registry of such definitions
\* ends as the parse of the same command line on the registry declared
\* without those flags.
C22_FlagsIgnored ==
    /\ pc = "idle" =>
          \A d \in FlagDefs :
              /\ Strip(d) # d
              /\ add(St, d) = add(St, Strip(d))
    /\ Done => Outcome(St) = Outcome(parse(StrippedEntry, argv))

\* a mandatory param declared with pgm::optval and an option declared with
\* pgm::req | pgm::opt are parsed: -o takes its value, the param the token
C22_Witness ==
    /\ Done /\ err = NoErr /\ argv = <<TokOX, TokX>>
    /\ Len(options) = 1 /\ options[1].req /\ options[1].values = <<TokX>>
    /\ Len(params) = 1 /\ ~params[1].opt /\ params[1].values = <<TokX>>

----------------------------------------------------------------------------
(* Values across parse calls *)

IsPrefix(a, b) == Len(a) <= Len(b) /\ SubSeq(b, 1, Len(a)) = a

\* C23: entering parse changes no value of the registry, and every step of a
\* parse leaves the values recorded so far in place and only appends after
\* them, so a second parse on the same registry adds to the values of the
\* first.
C23_Accumulates ==
    [][/\ (pc = "idle" /\ pc' = "scan") => (options' = options /\ params' = params)
       /\ last' = "parse" =>
             /\ Len(options') = Len(options) /\ Len(params') = Len(params)
             /\ \A i \in 1..Len(options) :
                   IsPrefix(options[i].values, options'[i].values)
             /\ \A i \in 1..Len(params) :
                   IsPrefix(params[i].values, params'[i].values)
      ]_vars

\* two parses of -b x: the option and the param each hold two values
C23_Witness ==
    /\ Done /\ nparse = 2 /\ err = NoErr /\ argv = <<TokB, TokX>>
    /\ entry[1][1].values = <<Str0>> /\ options[1].values = <<Str0, Str0>>
    /\ entry[2][1].values = <<TokX>> /\ params[1].values = <<TokX, TokX>>

----------------------------------------------------------------------------
(* Options that take a value *)

\* the token at the head of the queue carries a value of its own: -oV, and
\* --out=V, also with V empty
Inline(t) ==
    IF t[2] = "-" THEN \E k \in 3..Len(t) : t[k] = "="
    ELSE Len(t) > 2

\* ... and that value
InlineValue(t) ==
    IF t[2] = "-"
    THEN LET k == CHOOSE k \in 3..Len(t) :
                     t[k] = "=" /\ \A j \in 3..(k - 1) : t[j] # "="
         IN SubSeq(t, k + 1, Len(t))
    ELSE SubSeq(t, 3, Len(t))

\* C24: when the scan meets an option that requires a value, the value is
\* the inline one if the token has one; otherwise it is the next token of the
\* queue, whatever it looks like, which is taken off the queue with the
\* option; when the queue is empty or the next token is --, parse throws
\* missing_argument.  The value is recorded unless the option is a duplicate.
C24_RequiredValue ==
    [][\A i \in 1..Len(options) :
          (Occurrence(i) /\ options[i].valname # Str0 /\ ~options[i].optval) =>
             LET t == Head(args)
                 rest == Tail(args)
                 dup == ~options[i].mul /\ options[i].values # <<>>
             IN
             /\ positional' = positional
             /\ \A j \in 1..Len(options) : j # i => options'[j] = options[j]
             /\ IF ~Inline(t) /\ (rest = <<>> \/ Head(rest) = DashDash)
                THEN /\ pc' = "idle" /\ err'.kind = "missing_argument"
                     /\ options' = options
                ELSE IF dup
                THEN pc' = "idle" /\ err'.kind = "invalid_argument" /\ options' = options
                ELSE /\ pc' = "scan" /\ err' = NoErr /\ saved' = saved
                     /\ IF Inline(t)
                        THEN /\ options'[i].values = Append(options[i].values, InlineValue(t))
                             /\ args' = rest
                        ELSE /\ options'[i].values = Append(options[i].values, Head(rest))
                             /\ args' = Tail(rest)
      ]_vars

\* -o -a: the defined option -a is taken as the value of -o and is not
\* recorded as an option
C24_Witness ==
    /\ Done /\ err = NoErr /\ argv = <<TokO, TokA>>
    /\ \E i \in 1..Len(options) : options[i].short = TokO /\ options[i].values = <<TokA>>
    /\ \E i \in 1..Len(options) : options[i].short = TokA /\ options[i].values = <<>>

\* empty, "-", or not starting with a hyphen
PositionalClass(t) == t = Str0 \/ t = Dash \/ t[1] # "-"

\* C25: when the scan meets an option whose value is optional, the value is
\* the inline one if the token has one; otherwise the next token of the queue
\* is taken as the value exactly when there is one and it is empty, "-" or
\* does not start with a hyphen; otherwise nothing is taken off the queue and
\* one empty value is recorded, so that a first occurrence leaves count() = 1
\* and value_or(d) = "".
C25_OptionalValue ==
    [][\A i \in 1..Len(options) :
          (Occurrence(i) /\ options[i].valname # Str0 /\ options[i].optval) =>
             LET t == Head(args)
                 rest == Tail(args)
                 dup == ~options[i].mul /\ options[i].values # <<>>
             IN
             /\ positional' = positional
             /\ \A j \in 1..Len(options) : j # i => options'[j] = options[j]
             /\ IF dup
                THEN pc' = "idle" /\ err'.kind = "invalid_argument" /\ options' = options
                ELSE /\ pc' = "scan" /\ err' = NoErr /\ saved' = saved
                     /\ IF Inline(t)
                        THEN /\ options'[i].values = Append(options[i].values, InlineValue(t))
                             /\ args' = rest
                        ELSE IF rest # <<>> /\ PositionalClass(Head(rest))
                        THEN /\ options'[i].values = Append(options[i].values, Head(rest))
                             /\ args' = Tail(rest)
                        ELSE /\ options'[i].values = Append(options[i].values, Str0)
                             /\ args' = rest
                             /\ options[i].values = <<>> =>
                                   /\ count(options'[i].values) = 1
                                   /\ value_or(options'[i].values, TokX) = Str0
      ]_vars

\* -c -a: -a is not taken as the value of -c; both are recorded as present
C25_Witness ==
    /\ Done /\ err = NoErr /\ argv = <<TokC, TokA>>
    /\ \E i \in 1..Len(options) : options[i].short = TokC /\ options[i].values = <<Str0>>
    /\ \E i \in 1..Len(options) : options[i].short = TokA /\ options[i].values = <<Str0>>

----------------------------------------------------------------------------
(* What a repeatable param leaves for the params after it *)

Min(a, b) == IF a <= b THEN a ELSE b

\* the param loop is at a repeatable param and gives it tokens in this step
Munching ==
    /\ pc = "params" /\ it <= Len(params) /\ params[it].mul
    /\ pc' = "params" /\ params'[it].values # params[it].values

MandatoryAfter(i) == Cardinality({j \in (i + 1)..Len(params) : ~params[j].opt})

ParamsAfter(i) == Len(params) - i

\* C26 as stated: a repeatable param takes tokens until the queue is empty
\* or, when mandatory params follow it, until only as many tokens remain as
\* mandatory params follow it.
C26_Original ==
    [][Munching =>
          Len(saved') = IF MandatoryAfter(it) = 0 THEN 0
                        ELSE Min(Len(saved) - 1, MandatoryAfter(it))
      ]_vars

\* C26 as amended: a repeatable param takes one token and then goes on
\* taking tokens until only as many remain as params follow it, optional or
\* mandatory; the tokens it takes are the first of the queue, in order.
C26_ReservesForAll ==
    [][Munching =>
          LET n == Len(saved) - Min(Len(saved) - 1, ParamsAfter(it)) IN
          /\ Len(saved') = Min(Len(saved) - 1, ParamsAfter(it))
          /\ params'[it].values = params[it].values \o SubSeq(saved, 1, n)
          /\ saved' = SubSeq(saved, n + 1, Len(saved))
      ]_vars

\* a repeatable param followed by an optional one, three tokens: the
\* repeatable param takes two and leaves one for the optional param
C26_Witness ==
    /\ Done /\ Fresh /\ err = NoErr /\ T = 2 /\ P = 3
    /\ params[1].mul /\ params[2].opt /\ ~params[2].mul
    /\ Count(1) = 2 /\ Count(2) = 1

\* C27: when the scan meets a long option that takes no value in a token
\* with an inline value, empty or not, parse throws invalid_argument and no
\* option is changed.
C27_ExtraValue ==
    [][\A i \in 1..Len(options) :
          (/\ Occurrence(i) /\ options[i].valname = Str0
           /\ Head(args)[2] = "-" /\ Inline(Head(args))) =>
             /\ pc' = "idle"
             /\ err'.kind = "invalid_argument"
             /\ options' = options /\ params' = params
      ]_vars

\* --bee= is refused: an empty inline value is still a value
C27_Witness ==
    /\ Done /\ argv = <<TokBee \o <<"=">>>>
    /\ err = invalid_argument("doesn't take values", TokBee)
    /\ Len(options) = 1 /\ options[1].long = TokBee /\ options[1].values = <<>>

----------------------------------------------------------------------------
(* Order of the errors *)

RequiredMissing(opts) == \E i \in 1..Len(opts) : opts[i].req /\ opts[i].values = <<>>

\* C28: a step of the scan on a token binds no param and raises a scan error
\* or nothing, so a scan error is raised at the first offending token and
\* ends the parse there; the required options are checked in the one step
\* that finds the queue empty, before any param is bound; the param loop runs
\* only when no required option is missing and raises neither a scan error
\* nor the required-option error.  Hence a parse on a fresh registry that
\* passes the scan with a required option missing reports that option and
\* leaves every param empty, whatever params are missing as well.
C28_Precedence ==
    [][/\ (pc = "scan" /\ Len(args) > 0) =>
             /\ params' = params
             /\ err'.what \notin LateErrors
             /\ pc' = "idle" => (err'.what \in ScanErrors /\ options' = options)
       /\ (pc = "scan" /\ Len(args) = 0) =>
             /\ params' = params /\ options' = options
             /\ IF RequiredMissing(options)
                THEN /\ pc' = "idle"
                     /\ err'.kind = "missing_argument"
                     /\ err'.what = "option is required"
                ELSE pc' = "params" /\ err' = NoErr
       /\ pc = "params" =>
             /\ ~RequiredMissing(options) /\ options' = options
             /\ err'.what \notin ScanErrors \cup {"option is required"}
       /\ (pc # "idle" /\ pc' = "idle" /\ Fresh /\ RequiredMissing(options')
                       /\ err'.what \notin ScanErrors) =>
             /\ err'.what = "option is required"
             /\ \A j \in 1..Len(params') : params'[j].values = <<>>
      ]_vars

\* -a alone, with -o required and p1 mandatory: the option is the one
\* reported
C28_Witness ==
    /\ Done /\ Fresh /\ argv = <<TokA>>
    /\ err.kind = "missing_argument" /\ err.what = "option is required"
    /\ Len(options) = 2 /\ RequiredMissing(options)
    /\ Len(params) = 1 /\ ~params[1].opt /\ params[1].values = <<>>

----------------------------------------------------------------------------
(* Termination *)

\* the tokens of a queue and their characters
RECURSIVE Weight(_)
Weight(q) == IF q = <<>> THEN 0 ELSE 1 + Len(Head(q)) + Weight(Tail(q))

\* C29: a step of the scan loop takes the head token off the queue and puts
\* back at most one token, which is then shorter than the one taken (the
\* rest of a short-option group), so the queue never grows and its weight
\* falls with every step; the param loop moves on by one param per step; and
\* every parse call that has begun ends.
C29_Terminates ==
    /\ [][/\ (pc = "scan" /\ pc' = "scan") =>
                /\ Len(args) > 0
                /\ Len(args') <= Len(args)
                /\ Weight(args') < Weight(args)
                /\ \/ \E k \in 1..2 : args' = SubSeq(args, k + 1, Len(args))
                   \/ /\ Tail(args') = Tail(args)
                      /\ Len(Head(args')) < Len(Head(args))
          /\ (pc = "params" /\ pc' = "params") => it' = it + 1
         ]_vars
    /\ (pc # "idle") ~> (pc = "idle")

\* -bab was taken apart in three steps and the parse ended
C29_Witness ==
    /\ Done /\ err = NoErr /\ argv = <<(<<"-", "b", "a", "b">>), TokX>>
    /\ Len(options) = 2 /\ Len(params) = 1 /\ params[1].values = <<TokX>>

----------------------------------------------------------------------------
(* Definitions by two names *)

\* C30 as stated: each of the pairs (short, long), (long, short),
\* (short, value name), (long, value name) constructs an option, so that add
\* refuses it only when one of its names is already declared.
C30_Original ==
    \A n1, n2 \in PairNames :
        (\/ is_short_option(n1) /\ is_long_option(n2)
         \/ is_long_option(n1) /\ is_short_option(n2)
         \/ is_short_option(n1) /\ is_valname(n2)
         \/ is_long_option(n1) /\ is_valname(n2)) =>
            add(St, Def(<<n1, n2>>, {})).err.what \in {"", "duplicate option"}

\* C30 as amended: the pairs (short, long), (short, value name) and
\* (long, value name) construct the option with those names; every other
\* pair, (long, short) among them, throws invalid_definition naming the
\* second name when the first is a short or long option name, and the first
\* name otherwise.
C30_TwoNames ==
    \A n1, n2 \in PairNames :
        LET a == arg2(n1, n2, {"mul"})
            r == add(St, Def(<<n1, n2>>, {"mul"}))
        IN
        /\ IF is_short_option(n1) /\ is_long_option(n2)
           THEN a = ArgOption(make_option(n1, n2, Str0, {"mul"}))
           ELSE IF is_short_option(n1) /\ is_valname(n2)
           THEN a = ArgOption(make_option(n1, Str0, n2, {"mul"}))
           ELSE IF is_long_option(n1) /\ is_valname(n2)
           THEN a = ArgOption(make_option(Str0, n1, n2, {"mul"}))
           ELSE /\ a.kind = "throw" /\ a.err.kind = "invalid_definition"
                /\ a.err.name = IF is_short_option(n1) \/ is_long_option(n1)
                                 THEN n2 ELSE n1
        /\ a.kind = "throw" => (r.err = a.err /\ r.options = options)
        /\ (a.kind = "option" /\ options = <<>>) => r.options = <<a.o>>

\* --bee, -a was just refused, naming -a, after -a, --bee was accepted
C30_Witness ==
    /\ Added /\ err = invalid_definition("bad option value name", TokA)
    /\ Len(options) = 1 /\ options[1].short = TokA /\ options[1].long = TokBee

----------------------------------------------------------------------------
(* pgm::optval on an option without a value name *)

\* the options of opts, those without a value name declared without pgm::optval
Unflagged(opts) ==
    [i \in 1..Len(opts) |->
        IF opts[i].valname = Str0 THEN [opts[i] EXCEPT !.optval = FALSE]
        ELSE opts[i]]

\* C31 as stated: every option held by the registry that has optval set has
\* a non-empty value name.
C31_Original ==
    \A i \in 1..Len(options) : options[i].optval => options[i].valname # Str0

\* C31 as amended: a definition with pgm::optval and no value name is
\* refused only when one of its names is already declared; otherwise the
\* registry holds the option with optval set and an empty value name, and a
\* parse ends as on the registry whose options without a value name were
\* declared without pgm::optval.
C31_OptvalKept ==
    /\ pc = "idle" =>
          \A d \in {DefAQ, DefBQ, DefOut} :
              LET r == add(St, d) IN
              /\ r.err = NoErr <=>
                    \A k \in 1..Len(d.names), i \in 1..Len(options) :
                        d.names[k] \notin {options[i].short, options[i].long}
              /\ r.err # NoErr =>
                    /\ r.err.kind = "invalid_definition"
                    /\ r.err.what = "duplicate option"
                    /\ r.options = options
              /\ r.err = NoErr =>
                    /\ Len(r.options) = Len(options) + 1
                    /\ r.options[Len(r.options)].optval
                    /\ r.options[Len(r.options)].valname = Str0
    /\ Done =>
          Outcome(St)[3] =
              Outcome(parse([EntryState EXCEPT !.options = Unflagged(@)], argv))[3]
    /\ Done =>
          Unflagged(options) =
              parse([EntryState EXCEPT !.options = Unflagged(@)], argv).options

\* --out, declared with pgm::optval and no value name, is given followed by
\* x: the option records "" and x goes to the param
C31_Witness ==
    /\ Done /\ err = NoErr /\ argv = <<TokOut, TokX>>
    /\ \E i \in 1..Len(options) :
          /\ options[i].long = TokOut /\ options[i].optval
          /\ options[i].valname = Str0 /\ options[i].values = <<Str0>>
    /\ Len(params) = 1 /\ params[1].values = <<TokX>>

----------------------------------------------------------------------------
(* Tokens re-queued from a short-option group *)

\* the token at the front of the queue is not an element of argv: it was
\* pushed there by the step that took a no-value short option off a group
Synthesised ==
    /\ pc = "scan" /\ Len(args) > 0
    /\ \/ Len(args) > Len(argv)
       \/ args # SubSeq(argv, Len(argv) - Len(args) + 1, Len(argv))

\* C32 as stated: the end-of-options flag is set only when an element of
\* argv equals "--", and a re-queued token is never one that the scan loop
\* takes for the terminator or for a long option.
C32_Original ==
    /\ had_token => \E i \in 1..Len(argv) : argv[i] = DashDash
    /\ Synthesised => SubSeq(Head(args), 1, 2) # DashDash

----------------------------------------------------------------------------
(* A failed add *)

\* C33: an add call that throws leaves the option list and the param list,
\* with every accumulated value, exactly as they were before the call.
C33_FailedAddFrame ==
    [][(pc = "idle" /\ pc' = "idle" /\ last' = "add" /\ err' # NoErr)
          => (options' = options /\ params' = params)]_vars

\* after a parse that recorded values, --bee is declared a second time and
\* refused
C33_Witness ==
    /\ Added /\ err = invalid_definition("duplicate option", TokBee) /\ nparse = 1
    /\ \E i \in 1..Len(options) : options[i].values # <<>>

----------------------------------------------------------------------------
(* The positional tokens, partitioned among the params *)

\* C34: after a successful parse on a fresh registry the value lists of the
\* params, concatenated in declaration order, are the positional tokens in
\* command-line order, and a param that is not repeatable holds at most one
\* value.
C34_Partition ==
    (Done /\ Fresh /\ err = NoErr) =>
        /\ ConcatValues(params, T) = positional
        /\ \A i \in 1..T : ~params[i].mul => Count(i) <= 1

\* five tokens over three params, the repeatable one in the middle
C34_Witness ==
    /\ Done /\ Fresh /\ err = NoErr /\ T = 3 /\ P = 5
    /\ ~params[1].mul /\ params[2].mul /\ ~params[3].mul
    /\ params[1].values = <<PValue(1)>>
    /\ params[2].values = <<PValue(2), PValue(3), PValue(4)>>
    /\ params[3].values = <<PValue(5)>>

----------------------------------------------------------------------------
(* Options that are not repeatable *)

\* C35: in every reachable state, whatever add and parse calls were made and
\* however they ended, an option not marked repeatable holds at most one
\* value.
C35_AtMostOne ==
    \A i \in 1..Len(options) : ~options[i].mul => Len(options[i].values) <= 1

\* the second parse met -a again and threw; -a still holds the one value of
\* the first parse
C35_Witness ==
    /\ Done /\ nparse = 2 /\ ~Fresh
    /\ err = invalid_argument("duplicate option", TokA)
    /\ \E i \in 1..Len(options) :
          /\ options[i].short = TokA /\ ~options[i].mul
          /\ options[i].values = <<Str0>>

----------------------------------------------------------------------------
(* Option tokens mixed with positional tokens *)

\* the option tokens of a command line, in order
OptionTokens(a) == SelectSeq(a, LAMBDA t : Len(t) >= 2 /\ t[1] = "-")

\* the positional tokens of a command line, in order
PositionalTokens(a) == SelectSeq(a, LAMBDA t : ~(Len(t) >= 2 /\ t[1] = "-"))

\* every command line that keeps the order of o and the order of q
RECURSIVE Interleavings(_, _)
Interleavings(o, q) ==
    IF o = <<>> THEN {q}
    ELSE IF q = <<>> THEN {o}
    ELSE {<<Head(o)>> \o m : m \in Interleavings(Tail(o), q)}
         \cup {<<Head(q)>> \o m : m \in Interleavings(o, Tail(q))}

\* no option of the registry takes a value
NoValueOptions(opts) == \A i \in 1..Len(opts) : opts[i].valname = Str0

\* C36: when no option takes a value and no token is "--", every command
\* line with the same option tokens in the same order and the same positional
\* tokens in the same order ends parse with the same values and the same
\* error, on the registry the parse was entered with and on the registry it
\* left behind.
C36_Interleaving ==
    (Done /\ NoValueOptions(options)) =>
        /\ \A b \in Interleavings(OptionTokens(argv), PositionalTokens(argv)) :
              Outcome(parse(EntryState, b)) = Outcome(St)
        /\ \A a \in SeqsUpTo(MixTokens, MaxArgs) :
              \A b \in Interleavings(OptionTokens(a), PositionalTokens(a)) :
                  Outcome(parse(St, b)) = Outcome(parse(St, a))

\* x -a y was parsed: -a is recorded, x and y are bound in order
C36_Witness ==
    /\ Done /\ err = NoErr /\ argv = <<TokX, TokA, (<<"y">>)>>
    /\ \E i \in 1..Len(options) :
          options[i].short = TokA /\ options[i].values = <<Str0>>
    /\ ConcatValues(params, T) = <<TokX, (<<"y">>)>>

====
